---- MODULE Spec2Model ----
(***************************************************************************)
(* The TikTok OAuth2 backend (src/index.js, and its pull-from-URL variant   *)
(* kept in src/Dockerfile) as a state machine.                             *)
(*                                                                         *)
(* Node runs one handler at a time and a handler gives up control only at  *)
(* an `await` of an outbound axios call, so an action is one handler from  *)
(* the arrival of the request (or of an outbound response) up to the next  *)
(* outbound call or to the HTTP response.  The platform is external: its   *)
(* answers are drawn nondeterministically from small sets.                 *)
(***************************************************************************)
EXTENDS Integers, FiniteSets

VARIABLES
    variant,        \* which program is deployed: "file" (index.js) or "url" (Dockerfile variant)
    now,            \* Date.now(), in milliseconds
    codeVerifier,   \* the module-level PKCE slot (Null when empty)
    store,          \* the token file behind tokenStorage
    req,            \* the HTTP requests being handled, by slot
    lastVerifier    \* history: the verifier generated by the most recent /auth/login

vars == <<variant, now, codeVerifier, store, req, lastVerifier>>

----------------------------------------------------------------------------
(* Bounds *)

\* The clock runs from 0 to MaxNow milliseconds, in steps of TickMs.
MaxNow == 1000
TickMs == 1000
\* Verifiers are drawn from 1..NumVerifiers.
NumVerifiers == 2

\* Two requests may overlap.
Slots == {1, 2}

Null == 0       \* null (the empty verifier slot)
Undef == 0      \* undefined (a field the platform's body does not carry)
NaNVal == -1    \* NaN (Date.now() + undefined * 1000)

Verifiers == 1..NumVerifiers

----------------------------------------------------------------------------
(* Program constants *)

SafetyMarginMs == 60 * 1000
MsPerSecond == 1000

MsgNoTokens == "No tokens available. Please complete OAuth flow first. Visit /auth/login"
MsgReAuth == "Token refresh failed. Please re-authenticate at /auth/login"
MsgApiError == "TikTok API Error"
MsgUpstream == "upstream failure"

\* The messages that tell the caller to go through the login flow again.
LoginInstructions == {MsgNoTokens, MsgReAuth}

----------------------------------------------------------------------------
(* PKCE *)

\* crypto.createHash('sha256').update(verifier).digest('hex'): a fixed
\* injective map from verifiers to challenges (collisions are not modelled).
Challenge(v) == 100 + v

\* generatePKCE(): the verifier is random, so any of Verifiers.
GeneratePKCE == { [verifier |-> v, challenge |-> Challenge(v)] : v \in Verifiers }

\* Variant of StoreVerifier: a pending verifier is not overwritten.
StoreVerifierIfEmpty(slot, verifier) == IF slot # Null THEN slot ELSE verifier

\* codeVerifier = pkce.verifier: the slot takes the new verifier, whatever it held.
StoreVerifier(slot, verifier) == verifier

\* Variant of VerifierAfterExchange: the slot is not cleared.
VerifierKept(slot) == slot

\* codeVerifier = null, after a successful token exchange
VerifierAfterExchange(slot) == Null

----------------------------------------------------------------------------
(* The token store (./tokenStorage is not part of the sources).  The file   *)
(* is absent or holds one readable record: reads and writes do not fail.   *)

NoRecord == [present |-> FALSE, access_token |-> Undef, refresh_token |-> Undef,
             expires_at |-> NaNVal]

\* loadTokens(): the record, or "no tokens" when the file is absent.
LoadTokens(file) == file

\* saveTokens(record): the file holds the record, replacing any prior content.
SaveTokens(file, record) == record

----------------------------------------------------------------------------
(* What the platform can answer *)

\* Bodies of the token endpoint: kind "ok" carries no error field, "error"
\* carries one, "fail" is a rejected axios call (network or HTTP failure).
\* The bodies drawn here: token 1 with refresh token 2 for 61 seconds, token 2
\* with refresh token 1 for 60 seconds, and a body with none of the fields.
OkBodies ==
    { [kind |-> "ok", access_token |-> 1, refresh_token |-> 2, expires_in |-> 61],
      [kind |-> "ok", access_token |-> 2, refresh_token |-> 1, expires_in |-> 60],
      [kind |-> "ok", access_token |-> Undef, refresh_token |-> Undef,
       expires_in |-> Undef] }

Plain(k) == [kind |-> k, access_token |-> Undef, refresh_token |-> Undef,
             expires_in |-> Undef]

TokenResponses == OkBodies \cup {Plain("error"), Plain("fail")}
ApiResponses == {Plain("ok"), Plain("error"), Plain("fail")}
TransferResponses == {Plain("ok"), Plain("fail")}
NoResponse == Plain("none")

----------------------------------------------------------------------------
(* Requests *)

OutKinds == {"exchange", "refresh", "api", "download", "init", "put"}

NoOut == [kind |-> "none", cred |-> 0]

\* The init call's source_info and the PUT's Content-Range before they are
\* computed.
NoSourceInfo == [video_size |-> 0, chunk_size |-> 0, total_chunk_count |-> 0]
NoRange == [first |-> 0, last |-> 0, total |-> 0]

IdleReq == [kind |-> "none", pc |-> "idle", inp |-> "ok", code |-> 0, challenge |-> 0,
            tok |-> "notcalled", access |-> Undef,
            out |-> NoOut, sent |-> [k \in OutKinds |-> 0],
            threw |-> "", got |-> NoResponse, wrote |-> 0,
            tmp |-> "none", unlinks |-> 0,
            size |-> 0, source_info |-> NoSourceInfo, content_range |-> NoRange,
            status |-> 0, body |-> "", details |-> "", nresp |-> 0]

\* An arriving request takes the first free slot.
Free(s) ==
    /\ req[s].kind = "none"
    /\ \A t \in Slots : t < s => req[t].kind # "none"

\* res.status(st).send/json(...): the handler answers and is finished.
Respond(q, st, body, details) ==
    [q EXCEPT !.pc = "done", !.status = st, !.body = body, !.details = details,
              !.nresp = @ + 1]

\* await axios...: an outbound request of kind k leaves, carrying cred (the
\* verifier, the refresh token or the bearer token), and the handler waits.
Send(q, k, cred) ==
    [q EXCEPT !.pc = k, !.out = [kind |-> k, cred |-> cred], !.sent[k] = @ + 1]

----------------------------------------------------------------------------
(* The uploads: chunk arithmetic, the init call and the PUT *)

\* 10 * 1024 * 1024, the "10MB chunks" of the file variants
ChunkLimit == 10 * 1024 * 1024

\* The video sizes considered, in bytes: 5 MiB, and one byte more than 20 MiB
Sizes == {ChunkLimit \div 2, 2 * ChunkLimit + 1}

\* (size < 10 * 1024 * 1024) ? size : 10 * 1024 * 1024
ChunkSize(size) == IF size < ChunkLimit THEN size ELSE ChunkLimit

\* Math.ceil(size / chunkSize), for positive integers
TotalChunkCount(size) == (size + ChunkSize(size) - 1) \div ChunkSize(size)

\* source_info of the init call: computed in the file variants, fixed to one
\* chunk of the whole size in the URL variant
SourceInfo(q) ==
    IF q.kind = "uploadUrl"
    THEN [video_size |-> q.size, chunk_size |-> q.size, total_chunk_count |-> 1]
    ELSE [video_size |-> q.size, chunk_size |-> ChunkSize(q.size),
          total_chunk_count |-> TotalChunkCount(q.size)]

\* await axios.post(.../video/init/, {source_info}, Bearer at)
SendInit(q, at) == Send([q EXCEPT !.source_info = SourceInfo(q)], "init", at)

\* Variant of SendPut: the PUT carries the first declared chunk only.
SendPutFirstChunk(q) ==
    Send([q EXCEPT !.content_range =
              [first |-> 0, last |-> q.source_info.chunk_size - 1, total |-> q.size]],
         "put", 0)

\* await axios.put(upload_url, videoBuffer, Content-Range: bytes 0-(size-1)/size)
SendPut(q) ==
    Send([q EXCEPT !.content_range =
              [first |-> 0, last |-> q.size - 1, total |-> q.size]],
         "put", 0)

----------------------------------------------------------------------------
(* getValidAccessToken and what the handlers do with its outcome *)

\* Variant of IsFresh: the comparison is <= instead of <.
IsFreshInclusive(tokens, t) ==
    /\ tokens.expires_at # NaNVal
    /\ t <= tokens.expires_at - SafetyMarginMs

\* Date.now() < tokens.expires_at - 60 * 1000
IsFresh(tokens, t) ==
    /\ tokens.expires_at # NaNVal
    /\ t < tokens.expires_at - SafetyMarginMs

\* Variant of NewRecord: expires_in is added as if it were milliseconds.
NewRecordSeconds(data, t) ==
    [present |-> TRUE,
     access_token |-> data.access_token,
     refresh_token |-> data.refresh_token,
     expires_at |-> IF data.expires_in = Undef THEN NaNVal ELSE t + data.expires_in]

\* Variant of NewRecord: the refresh_token is left out of the saved object.
NewRecordNoRefresh(data, t) ==
    [present |-> TRUE,
     access_token |-> data.access_token,
     refresh_token |-> Undef,
     expires_at |-> IF data.expires_in = Undef THEN NaNVal
                    ELSE t + data.expires_in * MsPerSecond]

\* { access_token, refresh_token, expires_at: Date.now() + expires_in * 1000 }
NewRecord(data, t) ==
    [present |-> TRUE,
     access_token |-> data.access_token,
     refresh_token |-> data.refresh_token,
     expires_at |-> IF data.expires_in = Undef THEN NaNVal
                    ELSE t + data.expires_in * MsPerSecond]

\* Variant of Fail: a failed platform call is sent once more before giving up.
FailWithRetry(q, msg) ==
    IF q.pc = "api" /\ q.sent["api"] < 2
    THEN Send(q, "api", q.access)
    ELSE CASE q.kind = "creator" -> Respond(q, 500, "API call failed", "")
           [] q.kind = "userinfo" -> Respond(q, 500, "User info request failed", msg)
           [] q.kind = "status" -> Respond(q, 500, "Status check failed", msg)
           [] OTHER -> Respond(q, 500, "Video upload failed", msg)

\* The catch block of a proxy handler: 500, with err.message as details
\* (/creator-info sends a fixed text instead); the file variant of
\* /video/upload first removes its temporary file if it is still there.
Fail(q, msg) ==
    CASE q.kind = "creator" -> Respond(q, 500, "API call failed", "")
      [] q.kind = "userinfo" -> Respond(q, 500, "User info request failed", msg)
      [] q.kind = "status" -> Respond(q, 500, "Status check failed", msg)
      [] q.kind = "uploadFile" ->
            Respond(IF q.tmp = "exists"
                    THEN [q EXCEPT !.tmp = "gone", !.unlinks = @ + 1]
                    ELSE q,
                    500, "Video upload failed", msg)
      [] OTHER -> Respond(q, 500, "Video upload failed", msg)

\* /video/upload (file variant), init answered with an error: the temporary
\* file is removed before the error is thrown.
InitErrorCleanup(q) ==
    IF q.kind = "uploadFile" THEN [q EXCEPT !.tmp = "gone", !.unlinks = @ + 1] ELSE q

\* Variant of PutDoneCleanup: the temporary file is left in place.
PutDoneNoCleanup(q) == q

\* /video/upload (file variant), PUT done: the temporary file is removed.
PutDoneCleanup(q) ==
    IF q.kind = "uploadFile" THEN [q EXCEPT !.tmp = "gone", !.unlinks = @ + 1] ELSE q

\* Variant of Proceed: /user/info forwards the request without looking at fields.
ProceedNoFieldsCheck(q, at) ==
    LET q1 == [q EXCEPT !.access = at] IN
    CASE q.kind \in {"creator", "userinfo"} -> Send(q1, "api", at)
      [] q.kind = "status" ->
            IF q.inp = "missing"
            THEN Respond(q1, 400, "publish_id query parameter is required", "")
            ELSE Send(q1, "api", at)
      [] q.kind = "uploadUrl" ->
            IF q.inp = "missing"
            THEN Respond(q1, 400, "video_url is required", "")
            ELSE Send(q1, "download", 0)
      [] q.kind = "uploadFile" -> SendInit(q1, at)
      [] q.kind = "direct" ->
            CASE q.inp = "nopath" -> Respond(q1, 400, "file_path is required", "")
              [] q.inp = "notitle" -> Respond(q1, 400, "title is required", "")
              [] q.inp = "nofile" ->
                    Respond(q1, 400, "File not found at specified path", "")
              [] OTHER -> SendInit(q1, at)
      [] OTHER -> q1

\* The handler's code between `await getValidAccessToken()` and its first
\* call to the platform: the validation of the caller's input.
Proceed(q, at) ==
    LET q1 == [q EXCEPT !.access = at] IN
    CASE q.kind = "creator" -> Send(q1, "api", at)
      [] q.kind = "userinfo" ->
            IF q.inp = "missing"
            THEN Respond(q1, 400, "fields query parameter is required", "")
            ELSE Send(q1, "api", at)
      [] q.kind = "status" ->
            IF q.inp = "missing"
            THEN Respond(q1, 400, "publish_id query parameter is required", "")
            ELSE Send(q1, "api", at)
      [] q.kind = "uploadUrl" ->
            IF q.inp = "missing"
            THEN Respond(q1, 400, "video_url is required", "")
            ELSE Send(q1, "download", 0)
      [] q.kind = "uploadFile" -> SendInit(q1, at)
      [] q.kind = "direct" ->
            CASE q.inp = "nopath" -> Respond(q1, 400, "file_path is required", "")
              [] q.inp = "notitle" -> Respond(q1, 400, "title is required", "")
              [] q.inp = "nofile" ->
                    Respond(q1, 400, "File not found at specified path", "")
              [] OTHER -> SendInit(q1, at)
      [] OTHER -> q1

\* Variant of GetValidAccessToken: the `if (!tokens)` check is missing.
GetValidAccessTokenNoCheck(q, tokens, t) ==
    IF IsFresh(tokens, t)
    THEN Proceed([q EXCEPT !.tok = "used"], tokens.access_token)
    ELSE Send([q EXCEPT !.tok = "refreshing"], "refresh", tokens.refresh_token)

\* Variant of GetValidAccessToken: the refresh grant carries the expired
\* access_token.
GetValidAccessTokenWrongGrant(q, tokens, t) ==
    IF ~tokens.present
    THEN Fail([q EXCEPT !.tok = "threw", !.threw = MsgNoTokens], MsgNoTokens)
    ELSE IF IsFresh(tokens, t)
    THEN Proceed([q EXCEPT !.tok = "used"], tokens.access_token)
    ELSE Send([q EXCEPT !.tok = "refreshing"], "refresh", tokens.access_token)

\* Variant of GetValidAccessToken: a fresh record's refresh_token is returned
\* as the bearer credential.
GetValidAccessTokenRefreshBearer(q, tokens, t) ==
    IF ~tokens.present
    THEN Fail([q EXCEPT !.tok = "threw", !.threw = MsgNoTokens], MsgNoTokens)
    ELSE IF IsFresh(tokens, t)
    THEN Proceed([q EXCEPT !.tok = "used"], tokens.refresh_token)
    ELSE Send([q EXCEPT !.tok = "refreshing"], "refresh", tokens.refresh_token)

\* getValidAccessToken up to its return, its throw or its await, followed by
\* the calling handler's reaction.
GetValidAccessToken(q, tokens, t) ==
    IF ~tokens.present
    THEN Fail([q EXCEPT !.tok = "threw", !.threw = MsgNoTokens], MsgNoTokens)
    ELSE IF IsFresh(tokens, t)
    THEN Proceed([q EXCEPT !.tok = "used"], tokens.access_token)
    ELSE Send([q EXCEPT !.tok = "refreshing"], "refresh", tokens.refresh_token)

\* Variant of RefreshSaves: the body's error field is not looked at.
RefreshSavesUnchecked(data) == data.kind # "fail"

\* The refresh response leads to saveTokens unless axios rejected or the body
\* carries an error field.
RefreshSaves(data) == data.kind = "ok"

----------------------------------------------------------------------------
(* The state machine *)

Init ==
    /\ variant \in {"file", "url"}
    /\ now = 0
    /\ codeVerifier = Null
    /\ store = NoRecord
    /\ req = [s \in Slots |-> IdleReq]
    /\ lastVerifier = Null

\* Time passes.
Tick ==
    /\ now + TickMs <= MaxNow
    /\ now' = now + TickMs
    /\ UNCHANGED <<variant, codeVerifier, store, req, lastVerifier>>

\* GET /auth/login
AuthLogin(s) ==
    /\ Free(s)
    /\ \E pkce \in GeneratePKCE :
        /\ codeVerifier' = StoreVerifier(codeVerifier, pkce.verifier)
        /\ lastVerifier' = pkce.verifier
        /\ req' = [req EXCEPT ![s] =
                     Respond([IdleReq EXCEPT !.kind = "login", !.challenge = pkce.challenge],
                             302, "redirect", "")]
    /\ UNCHANGED <<variant, now, store>>

\* GET /auth/callback?code=, up to the token exchange
AuthCallback(s) ==
    /\ Free(s)
    /\ \E code \in 0..NumVerifiers :
        LET q == [IdleReq EXCEPT !.kind = "callback", !.code = code] IN
        req' = [req EXCEPT ![s] =
                  IF code = 0 THEN Respond(q, 400, "Missing code", "")
                  ELSE IF codeVerifier = Null
                  THEN Respond(q, 400, "No code verifier found", "")
                  ELSE Send(q, "exchange", codeVerifier)]
    /\ UNCHANGED <<variant, now, codeVerifier, store, lastVerifier>>

\* Variant of ExchangeSaves: the `!access_token` check is missing.
ExchangeSavesUnchecked(data) == TRUE

\* /auth/callback: an exchange body without an error field is saved only if
\* it carries an access_token.
ExchangeSaves(data) == data.access_token # Undef

\* GET /auth/callback, from the answer to the token exchange on
AuthCallbackReply(s) ==
    /\ req[s].pc = "exchange"
    /\ \E data \in TokenResponses :
        LET q == [req[s] EXCEPT !.got = data, !.out = NoOut] IN
        IF data.kind = "fail"
        THEN /\ req' = [req EXCEPT ![s] =
                  Respond(q, 500, "Token exchange failed", "")]
             /\ UNCHANGED <<codeVerifier, store>>
        ELSE IF data.kind = "error"
        THEN /\ req' = [req EXCEPT ![s] =
                  Respond(q, 400, "Error", "")]
             /\ UNCHANGED <<codeVerifier, store>>
        ELSE IF ~ExchangeSaves(data)
        THEN /\ req' = [req EXCEPT ![s] =
                  Respond(q, 400, "Access token not received", "")]
             /\ UNCHANGED <<codeVerifier, store>>
        ELSE /\ store' = SaveTokens(store, NewRecord(data, now))
             /\ codeVerifier' = VerifierAfterExchange(codeVerifier)
             /\ req' = [req EXCEPT ![s] =
                  Respond([q EXCEPT !.wrote = @ + 1], 200, "Login Successful", "")]
    /\ UNCHANGED <<variant, now, lastVerifier>>

\* getValidAccessToken, from the answer to the refresh grant on, and then
\* the handler that awaited it
RefreshReply(s) ==
    /\ req[s].pc = "refresh"
    /\ \E data \in TokenResponses :
        LET q == [req[s] EXCEPT !.got = data, !.out = NoOut] IN
        IF RefreshSaves(data)
        THEN /\ store' = SaveTokens(store, NewRecord(data, now))
             /\ req' = [req EXCEPT ![s] =
                  Proceed([q EXCEPT !.tok = "refreshed", !.wrote = @ + 1],
                          data.access_token)]
        ELSE /\ store' = store
             /\ req' = [req EXCEPT ![s] =
                  Fail([q EXCEPT !.tok = "threw", !.threw = MsgReAuth], MsgReAuth)]
    /\ UNCHANGED <<variant, now, codeVerifier, lastVerifier>>

\* A proxy request arrives: the handler runs up to its first outbound call
Arrive(s, q) ==
    /\ Free(s)
    /\ req' = [req EXCEPT ![s] = GetValidAccessToken(q, LoadTokens(store), now)]
    /\ UNCHANGED <<variant, now, codeVerifier, store, lastVerifier>>

\* GET /creator-info
CreatorInfo(s) == Arrive(s, [IdleReq EXCEPT !.kind = "creator"])

\* GET /user/info?fields=
UserInfo(s) ==
    \E inp \in {"ok", "missing"} :
        Arrive(s, [IdleReq EXCEPT !.kind = "userinfo", !.inp = inp])

\* GET /video/status?publish_id=
VideoStatus(s) ==
    \E inp \in {"ok", "missing"} :
        Arrive(s, [IdleReq EXCEPT !.kind = "status", !.inp = inp])

\* POST /video/direct-post (index.js only)
VideoDirectPost(s) ==
    /\ variant = "file"
    /\ \E inp \in {"ok", "nopath", "notitle", "nofile"}, size \in Sizes :
        Arrive(s, [IdleReq EXCEPT !.kind = "direct", !.inp = inp,
                                  !.size = IF inp = "ok" THEN size ELSE 0])

\* POST /video/upload with a video_url (the Dockerfile variant)
VideoUploadUrl(s) ==
    /\ variant = "url"
    /\ \E inp \in {"ok", "missing"} :
        Arrive(s, [IdleReq EXCEPT !.kind = "uploadUrl", !.inp = inp])

\* POST /video/upload with a multipart file (index.js): multer has written
\* the temporary file before the handler runs
VideoUploadFile(s) ==
    /\ variant = "file"
    /\ Free(s)
    /\ \E inp \in {"ok", "missing"}, size \in Sizes :
        LET q == [IdleReq EXCEPT !.kind = "uploadFile", !.inp = inp] IN
        req' = [req EXCEPT ![s] =
                  IF inp = "missing"
                  THEN Respond(q, 400, "No video file uploaded", "")
                  ELSE GetValidAccessToken([q EXCEPT !.tmp = "exists", !.size = size],
                                           LoadTokens(store), now)]
    /\ UNCHANGED <<variant, now, codeVerifier, store, lastVerifier>>

\* /creator-info, /user/info, /video/status: the platform's answer is relayed
ApiReply(s) ==
    /\ req[s].pc = "api"
    /\ \E data \in ApiResponses :
        LET q == [req[s] EXCEPT !.got = data, !.out = NoOut] IN
        req' = [req EXCEPT ![s] =
                  IF data.kind = "fail"
                  THEN Fail(q, MsgUpstream)
                  ELSE Respond(q, 200, "relay", "")]
    /\ UNCHANGED <<variant, now, codeVerifier, store, lastVerifier>>

\* /video/upload (URL variant): the video has been downloaded, or not
DownloadReply(s) ==
    /\ req[s].pc = "download"
    /\ \E data \in TransferResponses, size \in Sizes :
        LET q == [req[s] EXCEPT !.got = data, !.out = NoOut] IN
        req' = [req EXCEPT ![s] =
                  IF data.kind = "fail"
                  THEN Fail(q, MsgUpstream)
                  ELSE SendInit([q EXCEPT !.size = size], q.access)]
    /\ UNCHANGED <<variant, now, codeVerifier, store, lastVerifier>>

\* The uploads: the answer to the init call
InitReply(s) ==
    /\ req[s].pc = "init"
    /\ \E data \in ApiResponses :
        LET q == [req[s] EXCEPT !.got = data, !.out = NoOut] IN
        req' = [req EXCEPT ![s] =
                  CASE data.kind = "fail" ->
                          Fail(q, MsgUpstream)
                    [] data.kind = "error" ->
                          Fail(InitErrorCleanup(q), MsgApiError)
                    [] OTHER -> SendPut(q)]
    /\ UNCHANGED <<variant, now, codeVerifier, store, lastVerifier>>

\* The uploads: the answer to the PUT of the whole file
PutReply(s) ==
    /\ req[s].pc = "put"
    /\ \E data \in TransferResponses :
        LET q == [req[s] EXCEPT !.got = data, !.out = NoOut] IN
        req' = [req EXCEPT ![s] =
                  IF data.kind = "fail"
                  THEN Fail(q, MsgUpstream)
                  ELSE Respond(PutDoneCleanup(q), 200, "success", "")]
    /\ UNCHANGED <<variant, now, codeVerifier, store, lastVerifier>>

\* The response has reached the caller; the slot is free again.
Finish(s) ==
    /\ req[s].pc = "done"
    /\ req' = [req EXCEPT ![s] = IdleReq]
    /\ UNCHANGED <<variant, now, codeVerifier, store, lastVerifier>>

Next ==
    \/ Tick
    \/ \E s \in Slots : AuthLogin(s)
    \/ \E s \in Slots : AuthCallback(s)
    \/ \E s \in Slots : AuthCallbackReply(s)
    \/ \E s \in Slots : CreatorInfo(s)
    \/ \E s \in Slots : UserInfo(s)
    \/ \E s \in Slots : VideoStatus(s)
    \/ \E s \in Slots : VideoDirectPost(s)
    \/ \E s \in Slots : VideoUploadUrl(s)
    \/ \E s \in Slots : VideoUploadFile(s)
    \/ \E s \in Slots : RefreshReply(s)
    \/ \E s \in Slots : ApiReply(s)
    \/ \E s \in Slots : DownloadReply(s)
    \/ \E s \in Slots : InitReply(s)
    \/ \E s \in Slots : PutReply(s)
    \/ \E s \in Slots : Finish(s)

Spec == Init /\ [][Next]_vars

----------------------------------------------------------------------------
(* Steps the properties talk about *)

\* In this step the request in slot s calls getValidAccessToken.
CallsToken(s) == req[s].tok = "notcalled" /\ req'[s].tok # "notcalled"

\* In this step the request in slot s, waiting for the answer to its
\* outbound call of kind k, receives it.
Receives(s, k) == req[s].pc = k /\ req'[s] # req[s]

\* In this step a request of kind k arrives in slot s.
Arrives(s, k) == req[s].kind = "none" /\ req'[s].kind = k

\* The request has sent nothing to the platform.
NothingSent(q) == \A k \in OutKinds : q.sent[k] = 0

----------------------------------------------------------------------------
(* C1 *)

\* C1: a getValidAccessToken call that finds a stored record returns the
\* stored access_token, sending no refresh grant and writing nothing, exactly
\* when now < expires_at - 60 s; in every other case, now = expires_at - 60 s
\* included, it sends a refresh grant.
C1_ExpiryBoundary ==
    [][\A s \in Slots :
         (CallsToken(s) /\ store.present) =>
            IF now < store.expires_at - 60 * 1000
            THEN /\ req'[s].tok = "used"
                 /\ req'[s].access = store.access_token
                 /\ req'[s].sent["refresh"] = 0
                 /\ req'[s].wrote = 0
                 /\ store' = store
            ELSE /\ req'[s].tok = "refreshing"
                 /\ req'[s].sent["refresh"] = 1
                 /\ req'[s].out = [kind |-> "refresh", cred |-> store.refresh_token]
                 /\ store' = store]_vars

\* C1 witness: a refresh grant is out for a record that expires exactly 60 s
\* from now, while the other request used a record expiring 61 s from now.
C1_Witness ==
    \E s, t \in Slots :
        /\ req[s].pc = "refresh"
        /\ store.present
        /\ store.expires_at = now + 60 * 1000
        /\ req[t].tok = "used"
        /\ req[t].sent["refresh"] = 0

----------------------------------------------------------------------------
(* C2 *)

\* C2: when the refresh grant fails (a body with an error field, or a failed
\* call), getValidAccessToken raises the error that tells the caller to redo
\* the OAuth flow, the request ends with that single refresh grant sent, and
\* the stored record is left as it was.
C2_RefreshFailure ==
    [][\A s \in Slots :
         (Receives(s, "refresh") /\ req'[s].got.kind \in {"error", "fail"}) =>
            /\ req'[s].threw = MsgReAuth
            /\ req'[s].pc = "done"
            /\ req'[s].sent = req[s].sent
            /\ req'[s].sent["refresh"] = 1
            /\ req'[s].wrote = 0
            /\ store' = store]_vars

\* C2 witness: a request ended on a refresh grant answered with an error body,
\* with the expired record still in the store.
C2_Witness ==
    \E s \in Slots :
        /\ req[s].pc = "done"
        /\ req[s].threw = MsgReAuth
        /\ req[s].got.kind = "error"
        /\ store.present

----------------------------------------------------------------------------
(* C3 *)

\* What a getValidAccessToken call made now, against the store as it is, does.
NextCall(file, t) ==
    GetValidAccessToken([IdleReq EXCEPT !.kind = "creator"], LoadTokens(file), t)

\* The record the claim expects from a body: its two tokens, and the time of
\* the response plus expires_in seconds (NaN when the body has no expires_in).
RecordFrom(data, t) ==
    [present |-> TRUE,
     access_token |-> data.access_token,
     refresh_token |-> data.refresh_token,
     expires_at |-> IF data.expires_in = Undef THEN NaNVal
                    ELSE t + data.expires_in * 1000]

\* C3 as stated: when the refresh grant succeeds (read here as: the body
\* carries an access_token and no error field), the store holds the record
\* built from the response, the call returns its access_token, and a call
\* made right after returns the same token without a refresh grant.
C3_AsStated ==
    [][\A s \in Slots :
         (/\ Receives(s, "refresh")
          /\ req'[s].got.kind = "ok"
          /\ req'[s].got.access_token # Undef) =>
            /\ store' = RecordFrom(req'[s].got, now)
            /\ req'[s].access = req'[s].got.access_token
            /\ NextCall(store', now').tok = "used"
            /\ NextCall(store', now').access = req'[s].access
            /\ NextCall(store', now').sent["refresh"] = 0]_vars

\* C3 (amended): when the refresh grant is answered with a body without an
\* error field, the store holds the record built from the response and the
\* call returns its access_token; a call made right after returns the same
\* token without a refresh grant if the body's expires_in is more than 60
\* seconds, and sends another refresh grant if it is 60 seconds or less, or
\* absent.
C3_RefreshSuccess ==
    [][\A s \in Slots :
         (Receives(s, "refresh") /\ req'[s].got.kind = "ok") =>
            /\ store' = RecordFrom(req'[s].got, now)
            /\ req'[s].access = req'[s].got.access_token
            /\ req'[s].tok = "refreshed"
            /\ req'[s].sent["refresh"] = 1
            /\ IF req'[s].got.expires_in # Undef /\ req'[s].got.expires_in > 60
               THEN /\ NextCall(store', now').tok = "used"
                    /\ NextCall(store', now').access = req'[s].access
                    /\ NextCall(store', now').sent["refresh"] = 0
               ELSE NextCall(store', now').sent["refresh"] = 1]_vars

\* C3 witness: a request went on with the token of a successful refresh
\* (expires_in 61 s), the store holds that token, and the other request
\* has since been handed the same token from the store without a refresh.
C3_Witness ==
    \E s, t \in Slots :
        /\ s # t
        /\ req[s].tok = "refreshed"
        /\ req[s].got.kind = "ok"
        /\ req[s].got.expires_in = 61
        /\ store.access_token = req[s].access
        /\ req[t].tok = "used"
        /\ req[t].access = req[s].access
        /\ req[t].sent["refresh"] = 0

----------------------------------------------------------------------------
(* C4 *)

\* C4: with no record stored, getValidAccessToken raises the 'not yet
\* authenticated' error, which names the login endpoint and is not the
\* refresh-failure error; the request sends nothing to the platform and
\* writes nothing to the store.
C4_NoTokens ==
    [][\A s \in Slots :
         (CallsToken(s) /\ ~store.present) =>
            /\ req'[s].threw = MsgNoTokens
            /\ req'[s].threw # MsgReAuth
            /\ req'[s].threw \in LoginInstructions
            /\ req'[s].pc = "done"
            /\ NothingSent(req'[s])
            /\ req'[s].wrote = 0
            /\ store' = store]_vars

\* C4 witness: a proxy request has been answered on the 'no tokens' error
\* while the store is empty.
C4_Witness ==
    \E s \in Slots :
        /\ req[s].pc = "done"
        /\ req[s].threw = MsgNoTokens
        /\ ~store.present

----------------------------------------------------------------------------
(* C5 *)

\* C5 as stated: once a /auth/callback that sent the verifier in a token
\* exchange has been answered, the verifier slot is empty.
C5_AsStated ==
    [][\A s \in Slots : Receives(s, "exchange") => codeVerifier' = Null]_vars

\* C5 (amended): /auth/login leaves a verifier in the slot; a /auth/callback
\* whose token exchange returned an access_token (and no error) clears the
\* slot as it answers, and one whose exchange failed leaves the slot as it
\* was; a /auth/callback that carries a code and finds the slot empty is
\* answered 400 'No code verifier found' and sends nothing.
C5_VerifierLifecycle ==
    [][\A s \in Slots :
         /\ Arrives(s, "login") => codeVerifier' # Null
         /\ Receives(s, "exchange") =>
               IF req'[s].got.kind = "ok" /\ req'[s].got.access_token # Undef
               THEN codeVerifier' = Null /\ req'[s].status = 200
               ELSE codeVerifier' = codeVerifier /\ req'[s].status \in {400, 500}
         /\ (Arrives(s, "callback") /\ req'[s].code # 0 /\ codeVerifier = Null) =>
               /\ req'[s].status = 400
               /\ req'[s].body = "No code verifier found"
               /\ NothingSent(req'[s])
               /\ codeVerifier' = Null]_vars

\* C5 witness: one callback has been answered with the confirmation page, the
\* slot is empty, and a further callback was answered 'No code verifier found'.
C5_Witness ==
    \E s, t \in Slots :
        /\ req[s].kind = "callback" /\ req[s].status = 200
        /\ req[s].sent["exchange"] = 1
        /\ codeVerifier = Null
        /\ req[t].kind = "callback" /\ req[t].code # 0
        /\ req[t].body = "No code verifier found"

----------------------------------------------------------------------------
(* C6 *)

\* C6: the one verifier slot holds nothing or the verifier of the most recent
\* /auth/login, whose challenge that login handed out; a /auth/callback that
\* goes on to the token exchange sends that most recent verifier, whatever
\* flow its code belongs to.
C6_SingleSlot ==
    /\ [](codeVerifier \in {Null, lastVerifier})
    /\ [][\A s \in Slots :
            /\ Arrives(s, "login") =>
                  /\ codeVerifier' = lastVerifier'
                  /\ req'[s].challenge = Challenge(codeVerifier')
            /\ (Arrives(s, "callback") /\ req'[s].sent["exchange"] = 1) =>
                  /\ req'[s].out = [kind |-> "exchange", cred |-> lastVerifier]
                  /\ lastVerifier' = lastVerifier]_vars

\* C6 witness: a login handed out the challenge of verifier v, a later login
\* replaced v in the slot, and the callback carrying the code of the flow of
\* v is waiting on a token exchange that sent the later verifier.
C6_Witness ==
    \E s, t \in Slots :
        /\ req[t].kind = "login"
        /\ req[s].pc = "exchange"
        /\ req[t].challenge = Challenge(req[s].code)
        /\ req[s].out.cred # req[s].code
        /\ req[s].out.cred = lastVerifier

----------------------------------------------------------------------------
(* C7 *)

\* C7: the store holds one record or none; it changes only when a request
\* handles a token-endpoint body without an error field (a code exchange or
\* a refresh), and then all three fields come from that body at once; a
\* stored record is never removed.
C7_OneRecord ==
    /\ [](store = NoRecord \/ store.present)
    /\ [][/\ store.present => store'.present
          /\ store' # store =>
                \E s \in Slots :
                    /\ Receives(s, "exchange") \/ Receives(s, "refresh")
                    /\ req'[s].wrote = req[s].wrote + 1
                    /\ req'[s].got.kind = "ok"
                    /\ store' = RecordFrom(req'[s].got, now)]_vars

\* C7 witness: the record of a code exchange has been replaced by the record
\* of a refresh, whose three fields are in the store.
C7_Witness ==
    \E s \in Slots :
        /\ req[s].tok = "refreshed"
        /\ req[s].wrote = 1
        /\ req[s].got.kind = "ok"
        /\ req[s].got.access_token # Undef
        /\ store = RecordFrom(req[s].got, now)

----------------------------------------------------------------------------
(* C8 *)

\* The request omits a field its handler requires.
MissingField(q) ==
    \/ q.kind \in {"userinfo", "status", "uploadUrl", "uploadFile"} /\ q.inp = "missing"
    \/ q.kind = "direct" /\ q.inp \in {"nopath", "notitle"}

\* The 400 message that names the omitted field.
FieldMessage(q) ==
    CASE q.kind = "userinfo" -> "fields query parameter is required"
      [] q.kind = "status" -> "publish_id query parameter is required"
      [] q.kind = "uploadUrl" -> "video_url is required"
      [] q.kind = "uploadFile" -> "No video file uploaded"
      [] q.kind = "direct" /\ q.inp = "nopath" -> "file_path is required"
      [] q.kind = "direct" /\ q.inp = "notitle" -> "title is required"
      [] OTHER -> ""

ProxyCalls == {"api", "download", "init", "put"}

\* C8 as stated: a request that omits a required field is answered 400,
\* whatever the token store holds.
C8_AsStated ==
    \A s \in Slots :
        (req[s].pc = "done" /\ MissingField(req[s])) => req[s].status = 400

\* C8 (amended): a request that omits a required field is never forwarded
\* to the platform. It is answered 400 with the message naming the field
\* when getValidAccessToken returned a token (a valid record, or an expired
\* one whose refresh succeeded) and, for the missing file of /video/upload in
\* the file variant, in every state of the store without any token lookup;
\* /user/info, /video/status, the URL variant of /video/upload and
\* /video/direct-post obtain the token before they look at the input, so
\* with no record stored or a failed refresh they answer 500.
C8_MissingField ==
    \A s \in Slots :
        MissingField(req[s]) =>
            /\ \A k \in ProxyCalls : req[s].sent[k] = 0
            /\ req[s].pc = "done" =>
                  CASE req[s].kind = "uploadFile" ->
                          /\ req[s].status = 400
                          /\ req[s].body = FieldMessage(req[s])
                          /\ req[s].tok = "notcalled"
                          /\ NothingSent(req[s])
                    [] req[s].kind # "uploadFile" /\ req[s].tok \in {"used", "refreshed"} ->
                          /\ req[s].status = 400
                          /\ req[s].body = FieldMessage(req[s])
                    [] OTHER ->
                          /\ req[s].status = 500
                          /\ req[s].threw \in {MsgNoTokens, MsgReAuth}

\* C8 witness: a request without its field was answered 400 after a
\* successful refresh of an expired record, and another one 500 after a
\* failed refresh.
C8_Witness ==
    \E s, t \in Slots :
        /\ MissingField(req[s]) /\ req[s].tok = "refreshed" /\ req[s].status = 400
        /\ MissingField(req[t]) /\ req[t].threw = MsgReAuth /\ req[t].status = 500

----------------------------------------------------------------------------
(* C9 *)

ProxyKinds == {"creator", "userinfo", "status", "uploadUrl", "uploadFile", "direct"}

\* C9: when getValidAccessToken fails inside a proxy handler (no tokens, or
\* the refresh failed), the handler answers 500 with a body that carries the
\* instruction to repeat the login flow, and makes no call to the platform
\* endpoint it proxies.
C9_AsStated ==
    \A s \in Slots :
        (req[s].kind \in ProxyKinds /\ req[s].threw # "") =>
            /\ req[s].pc = "done"
            /\ req[s].status = 500
            /\ req[s].details \in LoginInstructions
            /\ \A k \in ProxyCalls : req[s].sent[k] = 0

----------------------------------------------------------------------------
(* C10 *)

\* The answer `data` to an outbound call of kind k is one the code treats as a
\* failure: a rejected call, or an error body of the token endpoint or of
\* the init call.
Failure(k, data) ==
    \/ data.kind = "fail"
    \/ k \in {"exchange", "refresh", "init"} /\ data.kind = "error"

\* C10: a request sends each kind of outbound request at most once and is
\* answered at most once, exactly once when its handler has finished; the
\* first outbound failure ends it with an error status and nothing is sent
\* after it; an answered request does nothing more.
C10_NoRetry ==
    /\ [](\A s \in Slots :
            /\ \A k \in OutKinds : req[s].sent[k] <= 1
            /\ req[s].nresp = (IF req[s].pc = "done" THEN 1 ELSE 0))
    /\ [][\A s \in Slots :
            /\ \A k \in OutKinds :
                 (Receives(s, k) /\ Failure(k, req'[s].got)) =>
                    /\ req'[s].pc = "done"
                    /\ req'[s].status \in {400, 500}
                    /\ req'[s].sent = req[s].sent
            /\ req[s].pc = "done" => req'[s] \in {req[s], IdleReq}]_vars

\* C10 witness: an upload from a URL went through refresh, download, init
\* and PUT, once each, and was answered 200, while another request was
\* answered 500 on a failed outbound call.
C10_Witness ==
    \E s, t \in Slots :
        /\ req[s].kind = "uploadUrl" /\ req[s].status = 200
        /\ \A k \in {"refresh", "download", "init", "put"} : req[s].sent[k] = 1
        /\ req[t].pc = "done" /\ req[t].got.kind = "fail" /\ req[t].status = 500
----------------------------------------------------------------------------
(* C11 *)

\* C11: in the file variant of /video/upload, a request that arrived with
\* an uploaded file has its temporary file in place while its handler runs
\* and removed, by exactly one unlink, once it is answered, on the success
\* path and on every failure path.
C11_TempFileRemoved ==
    \A s \in Slots :
        (req[s].kind = "uploadFile" /\ req[s].inp = "ok") =>
            /\ req[s].unlinks <= 1
            /\ req[s].pc = "done" => req[s].tmp = "gone" /\ req[s].unlinks = 1
            /\ req[s].pc # "done" => req[s].tmp = "exists" /\ req[s].unlinks = 0

\* C11 witness: one upload was answered 200 and another 500 after its init
\* call returned an error body; both temporary files are gone, each removed
\* once.
C11_Witness ==
    \E s, t \in Slots :
        /\ req[s].kind = "uploadFile" /\ req[s].status = 200
        /\ req[s].tmp = "gone" /\ req[s].unlinks = 1
        /\ req[t].kind = "uploadFile" /\ req[t].status = 500
        /\ req[t].sent["init"] = 1 /\ req[t].got.kind = "error"
        /\ req[t].tmp = "gone" /\ req[t].unlinks = 1
----------------------------------------------------------------------------
(* C12 *)

\* C12: a /auth/callback whose exchange succeeds leaves the access_token of
\* its response in the store, and a /creator-info request arriving while
\* that record is inside its validity window (more than 60 s before
\* expires_at) goes straight to the platform with that access_token as its
\* bearer credential: it sends no token exchange and no refresh grant and
\* leaves the store as it found it.
C12_BearerAfterLogin ==
    [][\A s \in Slots :
        /\ (Receives(s, "exchange") /\ req'[s].status = 200) =>
               /\ store'.present
               /\ store'.access_token = req'[s].got.access_token
               /\ store'.refresh_token = req'[s].got.refresh_token
        /\ (/\ Arrives(s, "creator")
            /\ store.present
            /\ now < store.expires_at - 60 * 1000) =>
               /\ req'[s].out = [kind |-> "api", cred |-> store.access_token]
               /\ req'[s].sent["api"] = 1
               /\ req'[s].sent["exchange"] = 0
               /\ req'[s].sent["refresh"] = 0
               /\ store' = store]_vars

\* C12 witness: a callback was answered 200 on a body carrying access_token
\* 1 and refresh_token 2, and a /creator-info request is waiting for the
\* platform with bearer 1, having sent neither an exchange nor a refresh.
C12_Witness ==
    \E s, t \in Slots :
        /\ req[s].kind = "callback" /\ req[s].pc = "done" /\ req[s].status = 200
        /\ req[s].got.access_token = 1 /\ req[s].got.refresh_token = 2
        /\ store.access_token = 1
        /\ req[t].kind = "creator" /\ req[t].pc = "api" /\ req[t].tok = "used"
        /\ req[t].out = [kind |-> "api", cred |-> 1]
        /\ req[t].sent["refresh"] = 0 /\ req[t].sent["exchange"] = 0
----------------------------------------------------------------------------
(* C13 *)

UploadKinds == {"uploadUrl", "uploadFile", "direct"}

\* The upload requests that passed the validation of their input.
PassedValidation(q) == q.kind \in UploadKinds /\ q.inp = "ok"

\* The source_info the claim expects for a video of the given size:
\* chunk_size = min(size, 10 MiB) and total_chunk_count = ceil(size /
\* chunk_size) in the file variants, one chunk of the whole size in the URL
\* variant.
ExpectedSourceInfo(kind, size) ==
    LET chunk == IF kind = "uploadUrl" \/ size <= 10485760 THEN size ELSE 10485760
        count == IF kind = "uploadUrl" THEN 1
                 ELSE CHOOSE n \in 1..8 : n * chunk >= size /\ (n - 1) * chunk < size
    IN  [video_size |-> size, chunk_size |-> chunk, total_chunk_count |-> count]

WholeFile(size) == [first |-> 0, last |-> size - 1, total |-> size]

----------------------------------------------------------------------------
(* C14 *)

\* C14: /auth/callback with a missing code or an empty verifier slot answers
\* 400 without sending anything; otherwise it sends one token exchange
\* carrying the verifier in the slot.  When the answer arrives, a transport
\* failure gives 500, an error body or a body without access_token gives
\* 400, and only a body with an access_token and no error field gives the
\* confirmation page, with the record built from the body in the store.  In
\* every failure case the store is left as it was.
C14_Callback ==
    [][\A s \in Slots :
        /\ (Arrives(s, "callback") /\ (req'[s].code = 0 \/ codeVerifier = Null)) =>
               /\ req'[s].pc = "done" /\ req'[s].status = 400
               /\ NothingSent(req'[s])
               /\ store' = store
        /\ (Arrives(s, "callback") /\ req'[s].code # 0 /\ codeVerifier # Null) =>
               /\ req'[s].pc = "exchange"
               /\ req'[s].out = [kind |-> "exchange", cred |-> codeVerifier]
               /\ req'[s].sent["exchange"] = 1
               /\ store' = store
        /\ Receives(s, "exchange") =>
               LET data == req'[s].got IN
               /\ req'[s].pc = "done"
               /\ req'[s].sent["exchange"] = 1
               /\ data.kind = "fail" =>
                      req'[s].status = 500 /\ store' = store
               /\ (data.kind = "error" \/ (data.kind = "ok" /\ data.access_token = Undef)) =>
                      req'[s].status = 400 /\ store' = store
               /\ (data.kind = "ok" /\ data.access_token # Undef) =>
                      /\ req'[s].status = 200
                      /\ req'[s].body = "Login Successful"
                      /\ store' = RecordFrom(data, now)]_vars

\* C14 witness: with a record in the store, one callback was answered 400 on
\* a body with neither error nor access_token and another 500 on a transport
\* failure; the stored record still has its access_token.
C14_Witness ==
    \E s, t \in Slots :
        /\ req[s].kind = "callback" /\ req[s].status = 400
        /\ req[s].got.kind = "ok" /\ req[s].got.access_token = Undef
        /\ req[s].body = "Access token not received"
        /\ req[t].kind = "callback" /\ req[t].status = 500
        /\ req[t].got.kind = "fail"
        /\ store.present /\ store.access_token # Undef
----------------------------------------------------------------------------
(* C15 *)

\* C15: nothing guards the refresh.  A request that calls
\* getValidAccessToken while the stored record is past its validity window
\* sends a refresh grant carrying the stored refresh_token and leaves the
\* store alone, whether or not another request's refresh grant is in
\* flight; and each refresh answer that is saved replaces the record with
\* the one built from that answer, so the answer handled last decides what
\* the store holds.
C15_RefreshRace ==
    [][\A s \in Slots :
        /\ (/\ CallsToken(s)
            /\ store.present
            /\ ~(now < store.expires_at - 60 * 1000)) =>
               /\ req'[s].pc = "refresh"
               /\ req'[s].out = [kind |-> "refresh", cred |-> store.refresh_token]
               /\ store' = store
        /\ (Receives(s, "refresh") /\ req'[s].got.kind = "ok") =>
               store' = RecordFrom(req'[s].got, now)]_vars

\* C15 witness: two requests are both waiting for the answer to a refresh
\* grant, and both grants carry the refresh_token that is in the store.
C15_Witness ==
    \E s, t \in Slots :
        /\ s # t
        /\ req[s].pc = "refresh" /\ req[t].pc = "refresh"
        /\ store.refresh_token # Undef
        /\ req[s].out = [kind |-> "refresh", cred |-> store.refresh_token]
        /\ req[t].out = req[s].out
----------------------------------------------------------------------------
(* C16 *)

\* C16: every record written to the token store has a defined access_token
\* and a numeric expires_at; on the code-exchange path and on the refresh
\* path alike, an answer with neither an error field nor an access_token
\* causes nothing to be saved.
C16_AsStated ==
    /\ store.present => (store.access_token # Undef /\ store.expires_at # NaNVal)
    /\ \A s \in Slots :
           (/\ req[s].got.kind = "ok"
            /\ req[s].got.access_token = Undef
            /\ req[s].sent["exchange"] + req[s].sent["refresh"] > 0) =>
               req[s].wrote = 0
----------------------------------------------------------------------------
(* C17 *)

\* C17: a successful /auth/callback clears only the verifier that it sent in
\* its own token exchange; when /auth/login has stored another verifier
\* while the exchange was in flight, that verifier is still in the slot
\* after the callback has answered.
C17_AsStated ==
    [][\A s \in Slots :
        (Receives(s, "exchange") /\ req'[s].status = 200) =>
            codeVerifier' = IF codeVerifier = req[s].out.cred
                            THEN Null
                            ELSE codeVerifier]_vars
====
